---- MODULE Spec2Model ----
(***************************************************************************)
(* Model of the notification graph (notification_graph/core.py,           *)
(* notification_behaviors.py, util.py): items, their edge sets and        *)
(* attribute sets, the graph descriptors, the subscription transaction    *)
(* and the two built-in behaviors.                                        *)
(***************************************************************************)
EXTENDS Integers, FiniteSets, Sequences, TLC

\* ---------------------------------------------------------------- bounds
NumItems == 4
MaxOps == 4
NumAttrItems == 3

\* ------------------------------------------------------------- constants
Items == 1..NumItems
None == 0

\* The identifier both test types use: the string 'red_point', a sequence
\* of characters.  Iterating a string yields its one-character substrings.
RedPoint == <<"r", "e", "d", "_", "p", "o", "i", "n", "t">>
Identifiers == {RedPoint}

\* The two behavior instances: NotifySubscribers('activate') and
\* CountAttribute(activate='count_activate').
NS == "NotifySubscribers"
CA == "CountAttribute"
Behaviors == {NS, CA}
Activate == "activate"
CountActivate == "count_activate"

\* A second instance of the first class, NotifySubscribers('other')
NSO == "NotifySubscribers(other)"
Other == "other"
IsNotifySubscribers(behavior) == behavior \in {NS, NSO}

BothSingle == 0
SubscriberSingle == 1
NotifierSingle == 2
BothGraph == 3

VARIABLES
    item_graph,               \* item -> graph index, None when absent
    notifier_set,             \* item -> set of items it subscribes
    subscriber_set,           \* item -> set of items subscribing it
    notification_behaviors,   \* item -> [identifier -> behavior]
    notification_attributes,  \* item -> [identifier -> attribute set]
    graphs,                   \* sequence of graph descriptors, in creation order
    call,                     \* the last API call and how it ended
    steps                     \* number of calls made (bounded runs only)

vars == <<item_graph, notifier_set, subscriber_set, notification_behaviors,
          notification_attributes, graphs, call, steps>>

\* ------------------------------------------------------------ dictionaries
EmptyDict == << >>

DictGet(d, k, default) == IF k \in DOMAIN d THEN d[k] ELSE default

DictSet(d, k, v) == (k :> v) @@ d

\* ------------------------------------------------------------------ values
\* A value handed to set_attribute, with its Python type
BoolValue(b) == [type |-> "bool", v |-> b]
IntValue(n) == [type |-> "int", v |-> n]
StrValue(s) == [type |-> "str", v |-> s]

\* ---------------------------------------------------------------- util.py
\* check_type's isinstance: bool is a subclass of int
is_bool(value) == value.type = "bool"
is_int(value) == value.type \in {"bool", "int"}

get_condition(subscriber_graph, notifier_graph) ==
    IF subscriber_graph = None
    THEN (IF notifier_graph = None THEN BothSingle ELSE SubscriberSingle)
    ELSE (IF notifier_graph = None THEN NotifierSingle ELSE BothGraph)

\* Dictionaries of sets are kept as sets of (key, member) pairs, so merging
\* branch into main is their union.
merge_dict_set_values(main, branch) == main \cup branch

\* ------------------------------------------------------- attribute sets
NotificationAttributeSet(attributes) ==
    [attribute_dict |-> attributes, inherited_attribute_dict |-> EmptyDict]

\* The whole program state as one value, so that a handler is a chain of
\* state transformations that an exception can cut short.
Cur ==
    [graph |-> item_graph, notifier |-> notifier_set, subscriber |-> subscriber_set,
     behaviors |-> notification_behaviors, attributes |-> notification_attributes,
     graphs |-> graphs]

Commit(st) ==
    /\ item_graph' = st.graph
    /\ notifier_set' = st.notifier
    /\ subscriber_set' = st.subscriber
    /\ notification_behaviors' = st.behaviors
    /\ notification_attributes' = st.attributes
    /\ graphs' = st.graphs

\* item.get_attribute_set(identifier): None is modelled by has_attribute_set
has_attribute_set(st, item, identifier) == identifier \in DOMAIN st.attributes[item]

\* item.get_attribute_set(identifier, create_if_not_exist=True)
create_attribute_set(st, item, identifier) ==
    IF has_attribute_set(st, item, identifier) THEN st
    ELSE [st EXCEPT !.attributes[item] =
              DictSet(st.attributes[item], identifier,
                      NotificationAttributeSet(EmptyDict))]

get_cache(st, item, identifier, attribute, default) ==
    DictGet(st.attributes[item][identifier].inherited_attribute_dict, attribute, default)

set_cache(st, item, identifier, attribute, value) ==
    [st EXCEPT !.attributes[item][identifier].inherited_attribute_dict =
         DictSet(st.attributes[item][identifier].inherited_attribute_dict,
                 attribute, value)]

get_owned(st, item, identifier, attribute, default) ==
    DictGet(st.attributes[item][identifier].attribute_dict, attribute, default)

set_owned(st, item, identifier, attribute, value) ==
    [st EXCEPT !.attributes[item][identifier].attribute_dict =
         DictSet(st.attributes[item][identifier].attribute_dict, attribute, value)]

has_attribute(st, item, identifier, attribute) ==
    attribute \in DOMAIN st.attributes[item][identifier].attribute_dict

\* ------------------------------------------------------------- traversal
RECURSIVE ReachFrom(_, _, _)
ReachFrom(edges, frontier, seen) ==
    IF frontier = {} THEN seen
    ELSE LET new == (UNION {edges[x] : x \in frontier}) \ seen
         IN ReachFrom(edges, new, seen \cup new)

\* items reachable from item along one or more edges
Reachable(edges, item) == ReachFrom(edges, {item}, {})

\* walk_through with the default assertion yields every item reachable from
\* the start, in an order the set iteration decides; on a cycle the
\* recursion never ends (RecursionError).
walk_through(st, item, upstream) ==
    Reachable(IF upstream THEN st.subscriber ELSE st.notifier, item)

Without(edges, x) == [i \in DOMAIN edges |-> IF i = x THEN {} ELSE edges[i] \ {x}]

\* some walk order overflows the stack before yielding stop
walk_can_overflow(edges, item, stop) ==
    LET e == Without(edges, stop)
    IN \E x \in Reachable(e, item) \cup {item} : x # stop /\ x \in Reachable(e, x)

\* how a call ended: the state it left and the error it raised, "ok" for none
Result(st, err) == [st |-> st, err |-> err]

\* how a read ended: the value returned and the error raised
Returned(value, err) == [value |-> value, err |-> err]

\* --------------------------------------------------- NotifySubscribers
\* self.__attribute_name of a NotifySubscribers instance
attribute_name_of(self) == IF self = NS THEN Activate ELSE Other

get_gathered_value(self, st, item, identifier) ==
    get_owned(st, item, identifier, attribute_name_of(self), FALSE)
        \/ get_cache(st, item, identifier, attribute_name_of(self), FALSE)

RECURSIVE recursive_set_true(_, _, _, _)
RECURSIVE set_true_each(_, _, _, _)
recursive_set_true(self, st, item, identifier) ==
    LET st1 == create_attribute_set(st, item, identifier)
    IN IF get_cache(st1, item, identifier, attribute_name_of(self), FALSE) THEN st1
       ELSE set_true_each(self, set_cache(st1, item, identifier, attribute_name_of(self), TRUE),
                          st1.subscriber[item], identifier)

set_true_each(self, st, todo, identifier) ==
    IF todo = {} THEN st
    ELSE LET i == CHOOSE x \in todo : TRUE
         IN set_true_each(self, recursive_set_true(self, st, i, identifier), todo \ {i}, identifier)

\* what "for identifier in related_identifiers" yields when it is handed one
\* identifier, a string: its one-character substrings
Iterate(related_identifiers) ==
    {<<related_identifiers[k]>> : k \in 1..Len(related_identifiers)}

RECURSIVE NS_pre_subscribe_each(_, _, _, _, _)
NS_pre_subscribe_each(self, st, subscriber_item, notifier_item, todo) ==
    IF todo = {} THEN st
    ELSE LET identifier == CHOOSE x \in todo : TRUE
             st1 == IF has_attribute_set(st, notifier_item, identifier)
                       /\ get_gathered_value(self, st, notifier_item, identifier)
                    THEN recursive_set_true(self, st, subscriber_item, identifier)
                    ELSE st
         IN NS_pre_subscribe_each(self, st1, subscriber_item, notifier_item, todo \ {identifier})

NS_pre_subscribe(self, st, subscriber_item, notifier_item, related_identifiers) ==
    NS_pre_subscribe_each(self, st, subscriber_item, notifier_item, Iterate(related_identifiers))

\* CountAttribute inherits the interface's empty pre_subscribe
behavior_pre_subscribe(st, behavior, subscriber_item, notifier_item, related_identifiers) ==
    IF IsNotifySubscribers(behavior)
    THEN NS_pre_subscribe(behavior, st, subscriber_item, notifier_item, related_identifiers)
    ELSE st

\* CountAttribute declares interest in the attributes it counts
get_interested_attributes(behavior) == IF behavior = CA THEN {Activate} ELSE {}

\* the possible results of __recursive_set_false, one per order in which the
\* subscriber sets can be iterated
RECURSIVE recursive_set_false(_, _, _, _)
RECURSIVE set_false_each(_, _, _, _)
\* a clearing that does not look at the item's remaining notifiers
recursive_set_false_unchecked(self, st, item, identifier) ==
    IF ~has_attribute_set(st, item, identifier)
          \/ ~get_cache(st, item, identifier, attribute_name_of(self), FALSE)
    THEN {st}
    ELSE set_false_each(self, set_cache(st, item, identifier, attribute_name_of(self), FALSE),
                        st.subscriber[item], identifier)

recursive_set_false(self, st, item, identifier) ==
    IF ~has_attribute_set(st, item, identifier)
          \/ ~get_cache(st, item, identifier, attribute_name_of(self), FALSE)
    THEN {st}
    ELSE IF \E notifier \in st.notifier[item] :
                has_attribute_set(st, notifier, identifier)
                    /\ get_gathered_value(self, st, notifier, identifier)
    THEN {st}
    ELSE set_false_each(self, set_cache(st, item, identifier, attribute_name_of(self), FALSE),
                        st.subscriber[item], identifier)

set_false_each(self, st, todo, identifier) ==
    IF todo = {} THEN {st}
    ELSE UNION {UNION {set_false_each(self, st1, todo \ {i}, identifier) :
                          st1 \in recursive_set_false(self, st, i, identifier)} :
                   i \in todo}

\* NotifySubscribers.set_attribute; check_type(attribute_value, bool) first
NS_set_attribute(self, st, item, identifier, attribute_name, attribute_value) ==
    IF attribute_name # attribute_name_of(self) THEN {Result(st, "NameError")}
    ELSE IF ~is_bool(attribute_value) THEN {Result(st, "TypeError")}
    ELSE LET old_gathered_value == get_gathered_value(self, st, item, identifier)
             st1 == set_owned(st, item, identifier, attribute_name_of(self), attribute_value.v)
         IN IF get_gathered_value(self, st1, item, identifier) = old_gathered_value
            THEN {Result(st1, "ok")}
            ELSE IF attribute_value.v
            THEN {Result(set_true_each(self, st1, st1.subscriber[item], identifier), "ok")}
            ELSE {Result(st2, "ok") :
                     st2 \in set_false_each(self, st1, st1.subscriber[item], identifier)}

\* ------------------------------------------------------- CountAttribute
\* a bool is an int to isinstance, and counts as 1 or 0
default_count_function(value) ==
    IF is_bool(value) THEN (IF value.v THEN 1 ELSE 0)
    ELSE IF is_int(value) THEN value.v
    ELSE IF value.v = "" THEN 0
    ELSE 1

\* __recursive_modify_count with the visited set it shares down the recursion:
\* returns the state and the visited set
RECURSIVE recursive_modify_count(_, _, _, _, _, _)
RECURSIVE modify_count_each(_, _, _, _, _, _)
recursive_modify_count(st, item, identifier, count_name, delta, visited) ==
    IF delta = 0 \/ item \in visited THEN [st |-> st, visited |-> visited]
    ELSE LET st1 == create_attribute_set(st, item, identifier)
             old_value == get_cache(st1, item, identifier, count_name, 0)
             st2 == set_cache(st1, item, identifier, count_name, old_value + delta)
         IN modify_count_each([st |-> st2, visited |-> visited \cup {item}],
                              st2.subscriber[item], identifier, count_name, delta, {})

modify_count_each(r, todo, identifier, count_name, delta, unused) ==
    IF todo = {} THEN r
    ELSE LET i == CHOOSE x \in todo : TRUE
         IN modify_count_each(
                recursive_modify_count(r.st, i, identifier, count_name, delta, r.visited),
                todo \ {i}, identifier, count_name, delta, unused)

\* lines 195-197: each subscriber starts a propagation with its own visited set
RECURSIVE modify_count_from_each(_, _, _, _, _)
modify_count_from_each(st, todo, identifier, count_name, delta) ==
    IF todo = {} THEN st
    ELSE LET i == CHOOSE x \in todo : TRUE
         IN modify_count_from_each(
                recursive_modify_count(st, i, identifier, count_name, delta, {}).st,
                todo \ {i}, identifier, count_name, delta)

\* a counter that adds the count of the new value without taking off the old
CA_set_attribute_no_old(st, item, identifier, attribute_name, attribute_value) ==
    IF attribute_name = Activate
    THEN {Result(recursive_modify_count(st, item, identifier, CountActivate,
                                        default_count_function(attribute_value), {}).st,
                 "ok")}
    ELSE {Result(st, "NameError")}

\* CountAttribute(activate='count_activate').set_attribute
CA_set_attribute(st, item, identifier, attribute_name, attribute_value) ==
    IF attribute_name = CountActivate
    THEN IF ~is_int(attribute_value)
         THEN {Result(st, "TypeError")}
         ELSE LET st1 == create_attribute_set(st, item, identifier)
                  old_value == get_owned(st1, item, identifier, CountActivate, 0)
                  new_value == default_count_function(attribute_value)
                  st2 == set_owned(st1, item, identifier, CountActivate, new_value)
              IN {Result(modify_count_from_each(st2, st2.subscriber[item], identifier,
                                                CountActivate, new_value - old_value),
                         "ok")}
    ELSE IF attribute_name = Activate
    THEN LET delta ==
                 IF ~has_attribute_set(st, item, identifier)
                       \/ ~has_attribute(st, item, identifier, Activate)
                 THEN default_count_function(attribute_value)
                 ELSE default_count_function(attribute_value)
                          - default_count_function(
                                BoolValue(get_owned(st, item, identifier, Activate, FALSE)))
         IN {Result(recursive_modify_count(st, item, identifier, CountActivate,
                                           delta, {}).st, "ok")}
    ELSE {Result(st, "NameError")}

behavior_set_attribute(st, behavior, item, identifier, attribute_name, attribute_value) ==
    IF IsNotifySubscribers(behavior)
    THEN NS_set_attribute(behavior, st, item, identifier, attribute_name, attribute_value)
    ELSE CA_set_attribute(st, item, identifier, attribute_name, attribute_value)

\* NotifySubscribers.get_attribute / CountAttribute.get_attribute with __calculate_total
behavior_get_attribute(st, behavior, item, identifier, attribute_name) ==
    IF IsNotifySubscribers(behavior)
    THEN IF attribute_name = attribute_name_of(behavior)
         THEN Returned(get_gathered_value(behavior, st, item, identifier), "ok")
         ELSE Returned(None, "NameError")
    ELSE IF attribute_name = CountActivate
         THEN Returned(get_owned(st, item, identifier, CountActivate, 0)
                           + get_cache(st, item, identifier, CountActivate, 0), "ok")
         ELSE Returned(None, "NameError")

\* ------------------------------------------------------ NotificationGraph
NotificationGraph ==
    [items |-> {}, behaviors |-> {}, interest_attributes |-> {}, head |-> None,
     is_tree |-> TRUE, graph_head_count |-> 0, destroyed |-> FALSE]

\* the (behavior, identifier) pairs of an item's notification types
item_behaviors(st, item) ==
    {<<st.behaviors[item][id], id>> : id \in DOMAIN st.behaviors[item]}

\* __add_behaviors: behavior -> set of identifiers, as pairs
add_behaviors(behavior_dict, st, item) == behavior_dict \cup item_behaviors(st, item)

destroyed_graph(st, item) ==
    st.graph[item] # None /\ st.graphs[st.graph[item]].destroyed

is_in_same_graph(st, item, other) ==
    st.graph[item] # None /\ st.graph[item] = st.graph[other]

is_head(st, item) ==
    st.graph[item] = None \/ st.graphs[st.graph[item]].head = item

is_head_of_tree(st, item) ==
    st.graph[item] = None
        \/ (st.graphs[st.graph[item]].is_tree /\ st.graphs[st.graph[item]].head = item)

is_tree_after_connect(st, subscriber, notifier) ==
    (st.graph[subscriber] = None \/ st.graphs[st.graph[subscriber]].is_tree)
        /\ is_head_of_tree(st, notifier)

RECURSIVE pre_subscribe_each(_, _, _, _)
pre_subscribe_each(st, subscriber, notifier, todo) ==
    IF todo = {} THEN st
    ELSE LET p == CHOOSE x \in todo : TRUE
         IN pre_subscribe_each(
                behavior_pre_subscribe(st, p[1], subscriber, notifier, p[2]),
                subscriber, notifier, todo \ {p})

\* the errors the circular-subscription walk can end with
circle_check_errors(st, subscriber, notifier) ==
    (IF subscriber \in walk_through(st, notifier, FALSE) THEN {"AssertionError"} ELSE {})
        \cup (IF walk_can_overflow(st.notifier, notifier, subscriber)
              THEN {"RecursionError"} ELSE {})

\* do_pre_subscribe: the possible results; on success the registry the
\* transaction works with has been updated in place in the graph it
\* belongs to (BothSingle: it is handed on in "behaviors")
do_pre_subscribe(st, subscriber, notifier, check_circular_subscription) ==
    LET condition == get_condition(st.graph[subscriber], st.graph[notifier])
        sg == st.graph[subscriber]
        ng == st.graph[notifier]
        hooks(s, behaviors) ==
            [st |-> pre_subscribe_each(s, subscriber, notifier, behaviors),
             err |-> "ok", condition |-> condition, behaviors |-> behaviors]
        failed(err) ==
            [st |-> st, err |-> err, condition |-> condition, behaviors |-> {}]
    IN  IF condition = BothSingle
        THEN {hooks(st, add_behaviors(add_behaviors({}, st, subscriber), st, notifier))}
        ELSE IF condition = NotifierSingle
        THEN IF destroyed_graph(st, subscriber) THEN {failed("ValueError")}
             ELSE LET b == add_behaviors(st.graphs[sg].behaviors, st, notifier)
                  IN {hooks([st EXCEPT !.graphs[sg].behaviors = b], b)}
        ELSE IF condition = SubscriberSingle
        THEN IF destroyed_graph(st, notifier) THEN {failed("ValueError")}
             ELSE LET b == add_behaviors(st.graphs[ng].behaviors, st, subscriber)
                  IN {hooks([st EXCEPT !.graphs[ng].behaviors = b], b)}
        ELSE IF destroyed_graph(st, subscriber) \/ destroyed_graph(st, notifier)
        THEN {failed("ValueError")}
        ELSE LET errs == IF check_circular_subscription
                         THEN circle_check_errors(st, subscriber, notifier) ELSE {}
                 b == merge_dict_set_values(st.graphs[sg].behaviors, st.graphs[ng].behaviors)
             IN IF errs # {} THEN {failed(e) : e \in errs}
                ELSE {hooks([st EXCEPT !.graphs[sg].behaviors = b], b)}

\* __collect_interest: (identifier, attribute) -> set of behaviors, as triples
collect_interest(interest_attributes, st, item) ==
    interest_attributes \cup
        UNION {{<<id, attribute, st.behaviors[item][id]>> :
                   attribute \in get_interested_attributes(st.behaviors[item][id])} :
               id \in DOMAIN st.behaviors[item]}

Meta(err, head, graph_head_count) ==
    [err |-> err, head |-> head, graph_head_count |-> graph_head_count]

\* lines 382-391: the first item without subscribers an upstream walk meets
find_head(st, subscriber) ==
    IF st.subscriber[subscriber] = {} THEN {Meta("ok", subscriber, 1)}
    ELSE LET up == walk_through(st, subscriber, TRUE)
             heads == {i \in up : st.subscriber[i] = {}}
             cyclic == \E x \in up : x \in Reachable(st.subscriber, x)
         IN {Meta("ok", h, 1) : h \in heads}
                \cup (IF cyclic THEN {Meta("RecursionError", None, 1)} ELSE {})
                \cup (IF heads = {} /\ ~cyclic
                      THEN {Meta("AssertionError", None, 1)} ELSE {})

\* lines 371-401: tree flag is computed apart; head and multi-head count
\* here, read after the edge has been inserted
head_after_connect(st, subscriber, notifier, is_tree) ==
    LET sg == st.graph[subscriber]
        ng == st.graph[notifier]
    IN  IF is_tree
        THEN {Meta("ok", IF sg = None THEN subscriber ELSE st.graphs[sg].head, 1)}
        ELSE IF is_in_same_graph(st, subscriber, notifier)
        THEN LET count == st.graphs[sg].graph_head_count
             IN IF st.subscriber[notifier] = {}
                THEN IF ~(count > 1) THEN {Meta("AssertionError", None, count)}
                     ELSE IF count - 1 = 1 THEN find_head(st, subscriber)
                     ELSE {Meta("ok", None, count - 1)}
                ELSE {Meta("ok", st.graphs[sg].head, count)}
        ELSE IF is_head(st, notifier)
        THEN IF sg = None THEN {Meta("AttributeError", None, 0)}
             ELSE {Meta("ok", st.graphs[sg].head, st.graphs[sg].graph_head_count)}
        ELSE IF sg = None THEN {Meta("AttributeError", None, 0)}
             ELSE {Meta("ok", None,
                        st.graphs[sg].graph_head_count + st.graphs[ng].graph_head_count
                            - (IF st.subscriber[notifier] = {} THEN 1 ELSE 0))}

\* a merge that destroys the loser without retargeting its members
replace_with_no_retarget(st, abandoned, g) ==
    [st EXCEPT
        !.graphs[abandoned].items = {},
        !.graphs[abandoned].behaviors = {},
        !.graphs[abandoned].destroyed = TRUE]

\* __replace_with and __destroy: retarget the members, release the loser
replace_with(st, abandoned, g) ==
    [st EXCEPT
        !.graph = [i \in DOMAIN st.graph |->
                      IF i \in st.graphs[abandoned].items THEN g ELSE st.graph[i]],
        !.graphs[abandoned].items = {},
        !.graphs[abandoned].behaviors = {},
        !.graphs[abandoned].destroyed = TRUE]

\* lines 403-427: create, grow or merge the graph; returns the state and g
merge_or_create(st, subscriber, notifier, condition) ==
    LET sg == st.graph[subscriber]
        ng == st.graph[notifier]
    IN  IF condition = BothSingle
        THEN LET g == Len(st.graphs) + 1
                 new == [NotificationGraph EXCEPT
                            !.items = {subscriber, notifier},
                            !.interest_attributes =
                                collect_interest(collect_interest({}, st, subscriber),
                                                 st, notifier)]
             IN [st |-> [st EXCEPT !.graphs = Append(@, new),
                                   !.graph[subscriber] = g,
                                   !.graph[notifier] = g],
                 g |-> g]
        ELSE IF condition = SubscriberSingle
        THEN [st |-> [st EXCEPT !.graphs[ng].items = @ \cup {subscriber},
                                !.graphs[ng].interest_attributes =
                                    collect_interest(@, st, subscriber),
                                !.graph[subscriber] = ng],
              g |-> ng]
        ELSE IF condition = NotifierSingle
        THEN [st |-> [st EXCEPT !.graphs[sg].items = @ \cup {notifier},
                                !.graphs[sg].interest_attributes =
                                    collect_interest(@, st, notifier),
                                !.graph[notifier] = sg],
              g |-> sg]
        ELSE IF ~is_in_same_graph(st, subscriber, notifier)
        THEN [st |-> replace_with(
                        [st EXCEPT !.graphs[sg].items = @ \cup st.graphs[ng].items,
                                   !.graphs[sg].interest_attributes =
                                       merge_dict_set_values(
                                           @, st.graphs[ng].interest_attributes)],
                        ng, sg),
              g |-> sg]
        ELSE [st |-> st, g |-> sg]

do_post_subscribe(st, subscriber, notifier, condition, behaviors) ==
    LET is_tree == is_tree_after_connect(st, subscriber, notifier)
        install(m) ==
            LET r == merge_or_create(st, subscriber, notifier, condition)
            IN Result([r.st EXCEPT !.graphs[r.g].behaviors = behaviors,
                                   !.graphs[r.g].is_tree = is_tree,
                                   !.graphs[r.g].graph_head_count = m.graph_head_count,
                                   !.graphs[r.g].head = m.head],
                      "ok")
    IN {IF m.err = "ok" THEN install(m) ELSE Result(st, m.err) :
           m \in head_after_connect(st, subscriber, notifier, is_tree)}

\* an insertion that forgets the notifier's subscriber set
insert_edge_one_sided(st, subscriber, notifier) ==
    [st EXCEPT !.notifier[subscriber] = @ \cup {notifier}]

\* lines 168-169
insert_edge(st, subscriber, notifier) ==
    [st EXCEPT !.subscriber[notifier] = @ \cup {subscriber},
               !.notifier[subscriber] = @ \cup {notifier}]

\* a subscribe without the assertion on self
subscribe_no_self_check(st, self, item, check_circular_subscription) ==
    UNION {IF pre.err # "ok" THEN {Result(pre.st, pre.err)}
           ELSE do_post_subscribe(insert_edge(pre.st, self, item), self, item,
                                  pre.condition, pre.behaviors) :
              pre \in do_pre_subscribe(st, self, item, check_circular_subscription)}

\* NotificationItem.subscribe: every way the call can end from st
subscribe(st, self, item, check_circular_subscription) ==
    IF self = item THEN {Result(st, "AssertionError")}
    ELSE UNION {IF pre.err # "ok" THEN {Result(pre.st, pre.err)}
                ELSE do_post_subscribe(insert_edge(pre.st, self, item), self, item,
                                       pre.condition, pre.behaviors) :
                   pre \in do_pre_subscribe(st, self, item, check_circular_subscription)}

\* an unsubscribe that takes a subscriber left without edges out of its graph
unsubscribe_leaving_graph(st, self, item) ==
    IF item \notin st.notifier[self] THEN Result(st, "KeyError")
    ELSE IF st.graph[self] = None THEN Result(st, "AttributeError")
    ELSE IF destroyed_graph(st, self) THEN Result(st, "ValueError")
    ELSE LET st1 == [st EXCEPT !.notifier[self] = @ \ {item}]
             st2 == [st1 EXCEPT !.subscriber[item] = @ \ {self}]
         IN IF self \notin st1.subscriber[item] THEN Result(st1, "KeyError")
            ELSE IF st2.notifier[self] = {} /\ st2.subscriber[self] = {}
            THEN Result([st2 EXCEPT !.graphs[st.graph[self]].items = @ \ {self},
                                    !.graph[self] = None], "ok")
            ELSE Result(st2, "ok")

\* an unsubscribe that notifies the graph before it looks for the edge
unsubscribe_hooks_first(st, self, item) ==
    IF st.graph[self] = None THEN Result(st, "AttributeError")
    ELSE IF destroyed_graph(st, self) THEN Result(st, "ValueError")
    ELSE IF item \notin st.notifier[self] THEN Result(st, "KeyError")
    ELSE LET st1 == [st EXCEPT !.notifier[self] = @ \ {item}]
         IN IF self \notin st1.subscriber[item] THEN Result(st1, "KeyError")
            ELSE Result([st1 EXCEPT !.subscriber[item] = @ \ {self}], "ok")

\* NotificationItem.unsubscribe; the built-in pre_unsubscribe hooks do nothing
unsubscribe(st, self, item) ==
    IF item \notin st.notifier[self] THEN Result(st, "KeyError")
    ELSE IF st.graph[self] = None THEN Result(st, "AttributeError")
    ELSE IF destroyed_graph(st, self) THEN Result(st, "ValueError")
    ELSE LET st1 == [st EXCEPT !.notifier[self] = @ \ {item}]
         IN IF self \notin st1.subscriber[item] THEN Result(st1, "KeyError")
            ELSE Result([st1 EXCEPT !.subscriber[item] = @ \ {self}], "ok")

\* notify_pre_set_attribute: every interested behavior's set_attribute runs,
\* in the order the behavior set is iterated; an error ends the dispatch
RECURSIVE notify_pre_set_attribute(_, _, _, _, _)
notify_pre_set_attribute(st, todo, item, identifier, attribute_name_value) ==
    IF todo = {} THEN {Result(st, "ok")}
    ELSE UNION {UNION {IF r.err # "ok" THEN {r}
                       ELSE notify_pre_set_attribute(r.st, todo \ {behavior}, item,
                                                     identifier, attribute_name_value) :
                          r \in behavior_set_attribute(st, behavior, item, identifier,
                                                       attribute_name_value[1],
                                                       attribute_name_value[2])} :
                   behavior \in todo}

\* a handle that lets its own behavior write before the interested ones run
handle_set_attribute_commit_first(st, item, identifier, attribute_name, value) ==
    IF identifier \notin DOMAIN st.behaviors[item] THEN {Result(st, "KeyError")}
    ELSE IF destroyed_graph(st, item) THEN {Result(st, "ValueError")}
    ELSE LET behavior_set ==
                 IF st.graph[item] = None THEN {}
                 ELSE {t[3] : t \in {u \in st.graphs[st.graph[item]].interest_attributes :
                                        u[1] = identifier /\ u[2] = attribute_name}}
             dispatch(o) ==
                 IF o.err = "NameError" THEN {Result(o.st, "AttributeError")}
                 ELSE IF o.err # "ok" THEN {o}
                 ELSE notify_pre_set_attribute(o.st, behavior_set, item, identifier,
                                               <<attribute_name, value>>)
         IN UNION {dispatch(o) :
                      o \in behavior_set_attribute(st, st.behaviors[item][identifier],
                                                   item, identifier, attribute_name,
                                                   value)}

\* item[identifier].set_attribute(attribute_name, value)
handle_set_attribute(st, item, identifier, attribute_name, value) ==
    IF identifier \notin DOMAIN st.behaviors[item] THEN {Result(st, "KeyError")}
    ELSE IF destroyed_graph(st, item) THEN {Result(st, "ValueError")}
    ELSE LET behavior_set ==
                 IF st.graph[item] = None THEN {}
                 ELSE {t[3] : t \in {u \in st.graphs[st.graph[item]].interest_attributes :
                                        u[1] = identifier /\ u[2] = attribute_name}}
             own(r) ==
                 IF r.err # "ok" THEN {r}
                 ELSE {IF o.err = "NameError" THEN Result(o.st, "AttributeError") ELSE o :
                          o \in behavior_set_attribute(r.st, st.behaviors[item][identifier],
                                                       item, identifier, attribute_name,
                                                       value)}
         IN UNION {own(r) : r \in notify_pre_set_attribute(
                                      st, behavior_set, item, identifier,
                                      <<attribute_name, value>>)}

\* item[identifier].get_attribute(attribute_name)
handle_get_attribute(st, item, identifier, attribute_name) ==
    IF identifier \notin DOMAIN st.behaviors[item] THEN Returned(None, "KeyError")
    ELSE LET r == behavior_get_attribute(st, st.behaviors[item][identifier], item,
                                         identifier, attribute_name)
         IN IF r.err = "NameError" THEN Returned(None, "AttributeError") ELSE r

\* item.add_notification(NotificationType(identifier, behavior))
add_notification(st, item, identifier, behavior) ==
    IF identifier \in DOMAIN st.behaviors[item] THEN Result(st, "KeyError")
    ELSE Result([st EXCEPT !.behaviors[item] =
                               DictSet(st.behaviors[item], identifier, behavior),
                           !.attributes[item] =
                               DictSet(st.attributes[item], identifier,
                                       NotificationAttributeSet(EmptyDict))],
                "ok")

Call(op, a, b, value, result) ==
    [op |-> op, a |-> a, b |-> b, value |-> value, result |-> result]

\* ----------------------------------------------------------------- actions
Init ==
    /\ item_graph = [i \in Items |-> None]
    /\ notifier_set = [i \in Items |-> {}]
    /\ subscriber_set = [i \in Items |-> {}]
    /\ notification_behaviors = [i \in Items |-> EmptyDict]
    /\ notification_attributes = [i \in Items |-> EmptyDict]
    /\ graphs = <<>>
    /\ call = Call("init", None, None, None, "ok")
    /\ steps = 0

\* subscriber.subscribe(notifier), circular-subscription check on (the default)
Subscribe(subscriber, notifier) ==
    \E r \in subscribe(Cur, subscriber, notifier, TRUE) :
        /\ Commit(r.st)
        /\ call' = Call("subscribe", subscriber, notifier, None, r.err)

Unsubscribe(subscriber, notifier) ==
    LET r == unsubscribe(Cur, subscriber, notifier)
    IN /\ Commit(r.st)
       /\ call' = Call("unsubscribe", subscriber, notifier, None, r.err)

\* topology only: items without notification types
NextTopo ==
    /\ steps < MaxOps
    /\ steps' = steps + 1
    /\ \/ \E s \in Items, n \in Items : Subscribe(s, n)
       \/ \E s \in Items, n \in Items : Unsubscribe(s, n)

SpecTopo == Init /\ [][NextTopo]_vars

\* subscribe only
NextGrow ==
    /\ steps < MaxOps
    /\ steps' = steps + 1
    /\ \E s \in Items, n \in Items : Subscribe(s, n)

SpecGrow == Init /\ [][NextGrow]_vars

AddNotification(item, behavior) ==
    LET r == add_notification(Cur, item, RedPoint, behavior)
    IN /\ Commit(r.st)
       /\ call' = Call("add_notification", item, None, behavior, r.err)

\* item[red_point].set_attribute('activate', value)
SetAttribute(item, value) ==
    \E r \in handle_set_attribute(Cur, item, RedPoint, Activate, value) :
        /\ Commit(r.st)
        /\ call' = Call("set_attribute", item, None, value, r.err)

AttrItems == 1..NumAttrItems

Next ==
    /\ steps < MaxOps
    /\ steps' = steps + 1
    /\ \/ \E i \in AttrItems, b \in Behaviors : AddNotification(i, b)
       \/ \E s \in AttrItems, n \in AttrItems : Subscribe(s, n)
       \/ \E s \in AttrItems, n \in AttrItems : Unsubscribe(s, n)
       \/ \E i \in AttrItems, v \in BOOLEAN : SetAttribute(i, BoolValue(v))

Spec == Init /\ [][Next]_vars

\* edges first, writes after: types and edges are set up while no attribute
\* has been written, and from the first write on only writes are made
Building == call.op \in {"init", "add_notification", "subscribe"}

NextStatic ==
    \/ /\ Building
       /\ UNCHANGED steps
       /\ \/ \E i \in AttrItems, b \in Behaviors : AddNotification(i, b)
          \/ \E s \in AttrItems, n \in AttrItems : Subscribe(s, n)
    \/ /\ steps < MaxOps
       /\ steps' = steps + 1
       /\ \E i \in AttrItems, v \in BOOLEAN : SetAttribute(i, BoolValue(v))

SpecStatic == Init /\ [][NextStatic]_vars

\* a type identifier of one character, for which "for identifier in
\* related_identifiers" yields the identifier itself
ShortId == <<"x">>

AddNotificationAs(item, identifier, behavior) ==
    LET r == add_notification(Cur, item, identifier, behavior)
    IN /\ Commit(r.st)
       /\ call' = Call("add_notification", item, None, behavior, r.err)

\* item[identifier].set_attribute('activate', value)
SetAttributeOf(item, identifier, value) ==
    \E r \in handle_set_attribute(Cur, item, identifier, Activate, value) :
        /\ Commit(r.st)
        /\ call' = Call("set_attribute", item, None, value, r.err)

\* items are connected first, get their types after that, and are written last
MaxEdges == 2
MaxWrites == 1

NextMerge ==
    \/ /\ call.op \in {"init", "subscribe"}
       /\ steps < MaxEdges
       /\ steps' = steps + 1
       /\ \E s \in Items, n \in Items : Subscribe(s, n)
    \/ /\ call.op \in {"init", "subscribe", "add_notification"}
       /\ UNCHANGED steps
       /\ \E i \in AttrItems, b \in Behaviors : AddNotificationAs(i, ShortId, b)
    \/ /\ steps < MaxEdges + MaxWrites
       /\ steps' = steps + 1
       /\ \E i \in AttrItems, v \in BOOLEAN : SetAttributeOf(i, ShortId, BoolValue(v))

SpecMerge == Init /\ [][NextMerge]_vars

\* NotificationGraph.__getattribute__: any read through a reference to a
\* graph, here of its is_tree property
graph_getattribute(st, g, name) ==
    IF st.graphs[g].destroyed THEN Returned(None, "ValueError")
    ELSE Returned(BoolValue(st.graphs[g][name]), "ok")

\* a caller that kept a reference to graph g reads g.is_tree
ReadIsTree(g) ==
    LET r == graph_getattribute(Cur, g, "is_tree")
    IN /\ call' = Call("is_tree", g, None, r.value, r.err)
       /\ UNCHANGED <<item_graph, notifier_set, subscriber_set, notification_behaviors,
                      notification_attributes, graphs>>

\* topology with reads through kept graph references
NextKept ==
    \/ NextTopo
    \/ /\ UNCHANGED steps
       /\ \E g \in 1..Len(graphs) : ReadIsTree(g)

SpecKept == Init /\ [][NextKept]_vars

\* the behavior instances of the runs that write and read by name
NamedBehaviors == {NS, CA, NSO}
AttributeNames == {Activate, CountActivate, Other}

\* item[red_point].set_attribute(attribute_name, value)
SetAttributeNamed(item, attribute_name, value) ==
    \E r \in handle_set_attribute(Cur, item, RedPoint, attribute_name, value) :
        /\ Commit(r.st)
        /\ call' = Call("set_attribute", item, attribute_name, value, r.err)

\* item[red_point].get_attribute(attribute_name)
GetAttributeNamed(item, attribute_name) ==
    LET r == handle_get_attribute(Cur, item, RedPoint, attribute_name)
    IN /\ call' = Call("get_attribute", item, attribute_name, r.value, r.err)
       /\ UNCHANGED <<item_graph, notifier_set, subscriber_set, notification_behaviors,
                      notification_attributes, graphs>>

NextNamed ==
    /\ steps < MaxOps
    /\ steps' = steps + 1
    /\ \/ \E i \in AttrItems, b \in NamedBehaviors : AddNotification(i, b)
       \/ \E s \in AttrItems, n \in AttrItems : Subscribe(s, n)
       \/ \E i \in AttrItems, a \in AttributeNames, v \in BOOLEAN :
              SetAttributeNamed(i, a, BoolValue(v))
       \/ \E i \in AttrItems, a \in AttributeNames : GetAttributeNamed(i, a)

SpecNamed == Init /\ [][NextNamed]_vars

\* the edges that do not lead to an item in stop
Avoiding(edges, stop) == [i \in DOMAIN edges |-> edges[i] \ stop]

\* NotificationItem.has_subscription: the values it can return and the errors
\* it can raise; on a cycle the walk either meets an item that has the
\* searched item among its notifiers or overflows the stack first
has_subscription(st, self, item, find_indirect) ==
    IF item = self \/ ~is_in_same_graph(st, self, item) THEN {Returned(FALSE, "ok")}
    ELSE IF item \in st.notifier[self] THEN {Returned(TRUE, "ok")}
    ELSE IF find_indirect /\ st.notifier[self] # {}
    THEN LET hit == {x \in DOMAIN st.notifier : item \in st.notifier[x]}
             found == walk_through(st, self, FALSE) \cap hit # {}
             e == Avoiding(st.notifier, hit)
             overflow == \E x \in Reachable(e, self) : x \in Reachable(e, x)
         IN (IF found THEN {Returned(TRUE, "ok")} ELSE {})
                \cup (IF overflow THEN {Returned(None, "RecursionError")} ELSE {})
                \cup (IF ~found /\ ~overflow THEN {Returned(FALSE, "ok")} ELSE {})
    ELSE {Returned(FALSE, "ok")}

Query(find_indirect, returned) == [find_indirect |-> find_indirect, returned |-> returned]

\* self.has_subscription(item, find_indirect)
HasSubscription(self, item, find_indirect) ==
    \E r \in has_subscription(Cur, self, item, find_indirect) :
        /\ call' = Call("has_subscription", self, item, Query(find_indirect, r.value), r.err)
        /\ UNCHANGED <<item_graph, notifier_set, subscriber_set, notification_behaviors,
                       notification_attributes, graphs>>

\* topology with subscription queries
NextQuery ==
    \/ NextTopo
    \/ /\ UNCHANGED steps
       /\ \E s \in Items, n \in Items, f \in BOOLEAN : HasSubscription(s, n, f)

SpecQuery == Init /\ [][NextQuery]_vars

\* one way a traversal can go: the items yielded in order, how it ended, and
\* cut, the number of items yielded when the assertion first returned false
\* (-1 when it never did)
Walk(seq, err, cut) == [seq |-> seq, err |-> err, cut |-> cut]

\* walk_through as a generator consumed to its end, with assertion(item) =
\* item \notin rejected: every sequence some iteration order of the edge sets
\* yields.  stack holds the items whose walk_through is running; entering one
\* of them again repeats the same walk without end (RecursionError).
RECURSIVE walk_yields(_, _, _, _, _, _)
RECURSIVE walk_level(_, _, _, _, _, _, _, _)
\* a traversal that stops at the items next to its start
walk_yields_one_level(st, self, upstream, rejected, terminate, stack) ==
    IF destroyed_graph(st, self) THEN {Walk(<<>>, "ValueError", -1)}
    ELSE IF stack # {self} THEN {Walk(<<>>, "ok", -1)}
    ELSE walk_level(st, IF upstream THEN st.subscriber[self] ELSE st.notifier[self],
                    {}, ~(st.graph[self] = None \/ st.graphs[st.graph[self]].is_tree),
                    upstream, rejected, terminate, stack)

walk_yields(st, self, upstream, rejected, terminate, stack) ==
    IF destroyed_graph(st, self) THEN {Walk(<<>>, "ValueError", -1)}
    ELSE walk_level(st, IF upstream THEN st.subscriber[self] ELSE st.notifier[self],
                    {}, ~(st.graph[self] = None \/ st.graphs[st.graph[self]].is_tree),
                    upstream, rejected, terminate, stack)

\* lines 225-237: the loop of one call, with its own visited set (kept only
\* when caching)
walk_level(st, todo, visited, caching, upstream, rejected, terminate, stack) ==
    IF todo = {} THEN {Walk(<<>>, "ok", -1)}
    ELSE UNION {
        IF caching /\ item \in visited
        THEN walk_level(st, todo \ {item}, visited, caching, upstream, rejected,
                        terminate, stack)
        ELSE IF item \in rejected
        THEN IF terminate THEN {Walk(<<>>, "ok", 0)}
             ELSE {Walk(rest.seq, rest.err, 0) :
                      rest \in walk_level(st, todo \ {item}, visited, caching, upstream,
                                          rejected, terminate, stack)}
        ELSE IF item \in stack THEN {Walk(<<item>>, "RecursionError", -1)}
        ELSE UNION {
            IF below.err # "ok"
            THEN {Walk(<<item>> \o below.seq, below.err,
                       IF below.cut = -1 THEN -1 ELSE below.cut + 1)}
            ELSE {Walk(<<item>> \o below.seq \o rest.seq, rest.err,
                       IF below.cut # -1 THEN below.cut + 1
                       ELSE IF rest.cut # -1 THEN rest.cut + 1 + Len(below.seq)
                       ELSE -1) :
                     rest \in walk_level(st, todo \ {item},
                                         IF caching THEN visited \cup {item} ELSE visited,
                                         caching, upstream, rejected, terminate, stack)} :
               below \in walk_yields(st, item, upstream, rejected, terminate,
                                     stack \cup {item})} :
           item \in todo}

WalkArgs(upstream, rejected, terminate) ==
    [upstream |-> upstream, rejected |-> rejected, terminate |-> terminate]

\* the assertions tried: accept every item, or every item but one
Assertions == {{}} \cup {{x} : x \in Items}

\* list(self.walk_through(upstream, assertion, terminate))
WalkThrough(self, upstream, rejected, terminate) ==
    \E r \in walk_yields(Cur, self, upstream, rejected, terminate, {self}) :
        /\ call' = Call("walk_through", self, WalkArgs(upstream, rejected, terminate),
                        [seq |-> r.seq, cut |-> r.cut], r.err)
        /\ UNCHANGED <<item_graph, notifier_set, subscriber_set, notification_behaviors,
                       notification_attributes, graphs>>

\* topology, and a traversal as the last call of a run: a traversal changes
\* nothing, so what follows it can be reached without it
NextWalk ==
    \/ /\ call.op # "walk_through"
       /\ NextTopo
    \/ /\ call.op # "walk_through"
       /\ UNCHANGED steps
       /\ \E i \in Items, u \in BOOLEAN, a \in Assertions, t \in BOOLEAN :
              WalkThrough(i, u, a, t)

SpecWalk == Init /\ [][NextWalk]_vars

\* lines 354-356: one pre_subscribe call per behavior and per identifier of
\* the registry, the identifier handed over as third argument
pre_subscribe_calls(behaviors, subscriber, notifier) ==
    {[behavior |-> p[1], subscriber_item |-> subscriber, notifier_item |-> notifier,
      related_identifiers |-> p[2]] : p \in behaviors}

inserted_edge(subscriber, notifier) == [subscriber |-> subscriber, notifier |-> notifier]

Traced(st, err, trace) == [st |-> st, err |-> err, trace |-> trace]

\* NotificationItem.subscribe with what it does in order: the hook calls of
\* do_pre_subscribe (line 167), then the edge insertion (168-169)
subscribe_traced(st, self, item, check_circular_subscription) ==
    IF self = item THEN {Traced(st, "AssertionError", <<>>)}
    ELSE UNION {IF pre.err # "ok" THEN {Traced(pre.st, pre.err, <<>>)}
                ELSE {Traced(r.st, r.err,
                             <<pre_subscribe_calls(pre.behaviors, self, item),
                               {inserted_edge(self, item)}>>) :
                         r \in do_post_subscribe(insert_edge(pre.st, self, item), self,
                                                 item, pre.condition, pre.behaviors)} :
                   pre \in do_pre_subscribe(st, self, item, check_circular_subscription)}

SubscribeTraced(subscriber, notifier) ==
    \E r \in subscribe_traced(Cur, subscriber, notifier, TRUE) :
        /\ Commit(r.st)
        /\ call' = Call("subscribe", subscriber, notifier, r.trace, r.err)

\* notify_pre_unsubscribe: one pre_unsubscribe call per behavior and per
\* identifier of the registry
pre_unsubscribe_calls(behaviors, subscriber, notifier) ==
    {[behavior |-> p[1], subscriber_item |-> subscriber, notifier_item |-> notifier,
      related_identifiers |-> p[2]] : p \in behaviors}

removed_edge(subscriber, notifier) == [subscriber |-> subscriber, notifier |-> notifier]

\* NotificationItem.unsubscribe with what it does in order: the hook calls of
\* notify_pre_unsubscribe (line 180), then the removals (181-182)
unsubscribe_traced(st, self, item) ==
    LET r == unsubscribe(st, self, item)
    IN IF item \notin st.notifier[self] \/ st.graph[self] = None
             \/ destroyed_graph(st, self)
       THEN Traced(r.st, r.err, <<>>)
       ELSE LET calls == pre_unsubscribe_calls(st.graphs[st.graph[self]].behaviors,
                                               self, item)
            IN IF r.err = "ok"
               THEN Traced(r.st, r.err, <<calls, {removed_edge(self, item)}>>)
               ELSE Traced(r.st, r.err, <<calls>>)

UnsubscribeTraced(subscriber, notifier) ==
    LET r == unsubscribe_traced(Cur, subscriber, notifier)
    IN /\ Commit(r.st)
       /\ call' = Call("unsubscribe", subscriber, notifier, r.trace, r.err)

\* types under two identifiers, writes, and subscriptions and
\* unsubscriptions with their hook calls
TypeIdentifiers == {RedPoint, ShortId}

NextHooks ==
    /\ steps < MaxOps
    /\ steps' = steps + 1
    /\ \/ \E i \in AttrItems, id \in TypeIdentifiers, b \in Behaviors :
              AddNotificationAs(i, id, b)
       \/ \E s \in AttrItems, n \in AttrItems : SubscribeTraced(s, n)
       \/ \E s \in AttrItems, n \in AttrItems : UnsubscribeTraced(s, n)
       \/ \E i \in AttrItems, v \in BOOLEAN : SetAttributeOf(i, ShortId, BoolValue(v))

SpecHooks == Init /\ [][NextHooks]_vars

\* runs that also write values of other types than bool: an int and a
\* non-empty str
NextValues ==
    /\ steps < MaxOps
    /\ steps' = steps + 1
    /\ \/ \E i \in AttrItems, b \in Behaviors : AddNotification(i, b)
       \/ \E s \in AttrItems, n \in AttrItems : Subscribe(s, n)
       \/ \E i \in AttrItems, v \in BOOLEAN : SetAttribute(i, BoolValue(v))
       \/ \E i \in AttrItems : SetAttribute(i, IntValue(2))
       \/ \E i \in AttrItems : SetAttribute(i, StrValue("s"))

SpecValues == Init /\ [][NextValues]_vars

\* -------------------------------------------------------------- properties
Typed(item, behavior) ==
    RedPoint \in DOMAIN notification_behaviors[item]
        /\ notification_behaviors[item][RedPoint] = behavior

\* the owned 'activate' of an item, False when it was never written
OwnedActivate(item) ==
    has_attribute_set(Cur, item, RedPoint)
        /\ get_owned(Cur, item, RedPoint, Activate, FALSE)

Downstream(item) == Reachable(notifier_set, item)

RECURSIVE SumOwnedCount(_)
SumOwnedCount(S) ==
    IF S = {} THEN 0
    ELSE LET j == CHOOSE x \in S : TRUE
         IN default_count_function(BoolValue(OwnedActivate(j))) + SumOwnedCount(S \ {j})

LiveGraphs == {g \in 1..Len(graphs) : ~graphs[g].destroyed}

\* C1: every item carrying the NotifySubscribers type reads activate as true
\* exactly when its own owned activate is true or that of some item strictly
\* downstream of it is.
BooleanOrAggregate ==
    \A i \in Items :
        Typed(i, NS) =>
            (handle_get_attribute(Cur, i, RedPoint, Activate).value
                <=> (OwnedActivate(i) \/ \E j \in Downstream(i) : OwnedActivate(j)))

\* C2: every counter item reads count_activate as the sum of the count
\* function over the owned activate of the items strictly downstream of it,
\* each counted once.
CountAggregate ==
    \A c \in Items :
        Typed(c, CA) =>
            handle_get_attribute(Cur, c, RedPoint, CountActivate).value
                = SumOwnedCount(Downstream(c))

\* C3: no item reaches itself along notifier edges.
NoCircularSubscription == \A i \in Items : i \notin Downstream(i)

\* C4: a subscribe call whose subscriber is downstream of its notifier fails
\* with the circular-subscription assertion and changes nothing.
CircleRejectedUnchanged ==
    [][(call'.op = "subscribe" /\ call'.a \in Downstream(call'.b))
          => (call'.result = "AssertionError"
                 /\ UNCHANGED <<item_graph, notifier_set, subscriber_set,
                                notification_behaviors, notification_attributes, graphs>>)]_vars

\* C5: A is among B's subscribers exactly when B is among A's notifiers, also
\* after calls that failed.
EdgeSymmetry ==
    \A a \in Items, b \in Items : a \in subscriber_set[b] <=> b \in notifier_set[a]

\* a subscribe call has failed after inserting its edge
EdgeSymmetryWitness ==
    /\ call.op = "subscribe"
    /\ call.result = "AttributeError"
    /\ call.a \in subscriber_set[call.b]
    /\ call.b \in notifier_set[call.a]

\* C6: for every graph that is not destroyed, an item's graph is that graph
\* exactly when the item is in its member set.
GraphCoherence ==
    \A g \in LiveGraphs : \A i \in Items : item_graph[i] = g <=> i \in graphs[g].items

\* two graphs have been merged: the loser is destroyed, the winner holds all
GraphCoherenceWitness ==
    /\ call.op = "subscribe"
    /\ call.result = "ok"
    /\ \E g \in 1..Len(graphs) : graphs[g].destroyed
    /\ \E g \in LiveGraphs : Cardinality(graphs[g].items) = 4

\* C7: the items a successful subscribe connects share one graph, so any two
\* items joined by an edge have the same graph.
ConnectedItemsShareGraph ==
    \A a \in Items, b \in Items :
        b \in notifier_set[a] => (item_graph[a] # None /\ item_graph[a] = item_graph[b])

TreeRootedAtHead(g) ==
    LET head == graphs[g].head
    IN /\ head \in graphs[g].items
       /\ subscriber_set[head] = {}
       /\ \A i \in graphs[g].items \ {head} :
              Cardinality(subscriber_set[i]) = 1 /\ i \in Downstream(head)

HeadIsUniqueRoot ==
    \A g \in LiveGraphs :
        LET roots == {i \in graphs[g].items : subscriber_set[i] = {}}
        IN IF Cardinality(roots) = 1 THEN graphs[g].head \in roots
           ELSE graphs[g].head = None

\* C10: when the notifier of a successful subscribe read activate as true
\* before the call, the subscriber and every item upstream of it that carries
\* the type read activate as true after it.
DynamicJoin ==
    [][(/\ call'.op = "subscribe"
        /\ call'.result = "ok"
        /\ Typed(call'.b, NS)
        /\ handle_get_attribute(Cur, call'.b, RedPoint, Activate).value)
          => \A x \in Items :
                 (x = call'.a \/ x \in Reachable(subscriber_set', call'.a))
                     => (Typed(x, NS) => handle_get_attribute(Cur, x, RedPoint, Activate).value)']_vars

\* C11: with every edge created before the first write and the edges forming
\* a DAG, every item carrying the NotifySubscribers type reads activate as
\* its owned value or the owned value of some strictly downstream item.
StaticBooleanAggregate == NoCircularSubscription => BooleanOrAggregate

\* a notifier has just been set to false under a subscriber that keeps its
\* inherited flag because another notifier still owns true
StaticBooleanAggregateWitness ==
    /\ call.op = "set_attribute"
    /\ call.result = "ok"
    /\ call.value = BoolValue(FALSE)
    /\ steps >= 3
    /\ NoCircularSubscription
    /\ \E s \in subscriber_set[call.a] : \E n \in notifier_set[s] \ {call.a} :
          /\ Typed(s, NS) /\ Typed(n, NS) /\ Typed(call.a, NS)
          /\ ~OwnedActivate(s) /\ ~OwnedActivate(call.a) /\ OwnedActivate(n)
          /\ call.a \notin Downstream(n) /\ n \notin Downstream(call.a)
          /\ get_cache(Cur, s, RedPoint, Activate, FALSE)

CounterCorrect(c) ==
    handle_get_attribute(Cur, c, RedPoint, CountActivate).value
        = SumOwnedCount(Downstream(c))

\* C12: with every edge created before the first write and the edges forming
\* a DAG, a write of activate on an item strictly downstream of a counter
\* item leaves the counter reading the sum of the count function over the
\* owned activate of its downstream items, as it did before the write.
StaticCountAggregate ==
    [][(/\ call'.op = "set_attribute"
        /\ call'.result = "ok"
        /\ Typed(call'.a, NS)
        /\ NoCircularSubscription)
          => \A c \in Items :
                 (Typed(c, CA) /\ call'.a \in Downstream(c) /\ CounterCorrect(c))
                     => CounterCorrect(c)']_vars

Isolated(item) ==
    item_graph[item] = None /\ notifier_set[item] = {} /\ subscriber_set[item] = {}

GraphShape ==
    [g \in DOMAIN graphs |->
        [items |-> graphs[g].items, behaviors |-> graphs[g].behaviors,
         is_tree |-> graphs[g].is_tree, head |-> graphs[g].head]]

\* C14: a subscribe call that raises leaves every notifier set and subscriber
\* set and every graph's members, behavior registry, tree flag and head as
\* they were before the call.
AtomicSubscribe ==
    [][(call'.op = "subscribe" /\ call'.result # "ok")
          => /\ UNCHANGED <<notifier_set, subscriber_set>>
             /\ GraphShape' = GraphShape]_vars

\* the inherited layer of every attribute set of every item
InheritedLayer ==
    [i \in Items |->
        [id \in DOMAIN notification_attributes[i] |->
            notification_attributes[i][id].inherited_attribute_dict]]

\* C15: a set_attribute whose value equals the owned value the item already
\* has changes no inherited value on any item.
IdempotentWrite ==
    [][(/\ call'.op = "set_attribute"
        /\ has_attribute_set(Cur, call'.a, RedPoint)
        /\ has_attribute(Cur, call'.a, RedPoint, Activate)
        /\ get_owned(Cur, call'.a, RedPoint, Activate, FALSE) = call'.value.v)
          => InheritedLayer' = InheritedLayer]_vars

\* true has been written again on an item whose true is inherited by a
\* NotifySubscribers item and counted by a counter above it
IdempotentWriteWitness ==
    /\ call.op = "set_attribute"
    /\ call.result = "ok"
    /\ call.value = BoolValue(TRUE)
    /\ steps >= 2
    /\ OwnedActivate(call.a)
    /\ \E s \in Items, c \in Items :
          /\ Typed(s, NS) /\ call.a \in Downstream(s)
          /\ get_cache(Cur, s, RedPoint, Activate, FALSE)
          /\ Typed(c, CA) /\ call.a \in Downstream(c)
          /\ get_cache(Cur, c, RedPoint, CountActivate, 0) = 1

\* what every item reads through each of its types: activate of a
\* NotifySubscribers type, count_activate of a CountAttribute type
Aggregates(st) ==
    [i \in Items |->
        [id \in DOMAIN st.behaviors[i] |->
            handle_get_attribute(st, i, id,
                IF st.behaviors[i][id] = NS THEN Activate ELSE CountActivate).value]]

\* the edges with subscriber -> notifier added
WithEdge(edges, subscriber, notifier) ==
    [edges EXCEPT ![subscriber] = @ \cup {notifier}]

\* C16: two subscribe calls that leave the edges a DAG and both return
\* normally in either order leave every item reading the same aggregates in
\* both orders.
MergeCommutes ==
    \A a \in Items, b \in Items, c \in Items, d \in Items :
        LET edges == WithEdge(WithEdge(notifier_set, a, b), c, d)
        IN (\A i \in Items : i \notin Reachable(edges, i))
              => \A r1 \in subscribe(Cur, a, b, TRUE), q1 \in subscribe(Cur, c, d, TRUE) :
                     (r1.err = "ok" /\ q1.err = "ok")
                        => \A r2 \in subscribe(r1.st, c, d, TRUE),
                              q2 \in subscribe(q1.st, a, b, TRUE) :
                               (r2.err = "ok" /\ q2.err = "ok")
                                  => Aggregates(r2.st) = Aggregates(q2.st)

\* C17: no item's graph is a destroyed graph; when a graph is destroyed its
\* members all have the surviving graph of the merge as their graph; and a
\* read through a reference to a destroyed graph raises ValueError.
NoDanglingGraph ==
    [][/\ \A i \in Items : ~destroyed_graph(Cur, i)'
       /\ \A g \in 1..Len(graphs) :
             (~graphs[g].destroyed /\ graphs'[g].destroyed)
                => /\ item_graph'[call'.a] \in LiveGraphs'
                   /\ \A i \in graphs[g].items : item_graph'[i] = item_graph'[call'.a]
       /\ (call'.op = "is_tree" /\ graphs[call'.a].destroyed)
             => call'.result = "ValueError"]_vars

\* a reference kept to the losing graph of a merge has been read
NoDanglingGraphWitness ==
    /\ call.op = "is_tree"
    /\ call.result = "ValueError"
    /\ graphs[call.a].destroyed
    /\ \E g \in LiveGraphs : Cardinality(graphs[g].items) >= 3

\* C18: an item's graph is null exactly when the item has no edge, neither a
\* notifier nor a subscriber.
IsolationInvariant ==
    \A i \in Items :
        item_graph[i] = None <=> (notifier_set[i] = {} /\ subscriber_set[i] = {})

\* C19: item.subscribe(item) raises and changes no edge set, no graph
\* reference and no attribute layer, and no item is ever its own notifier or
\* subscriber.
SelfSubscriptionRejected ==
    [][/\ \A i \in Items : i \notin notifier_set'[i] /\ i \notin subscriber_set'[i]
       /\ (call'.op = "subscribe" /\ call'.a = call'.b)
             => /\ call'.result = "AssertionError"
                /\ UNCHANGED <<item_graph, notifier_set, subscriber_set,
                               notification_behaviors, notification_attributes,
                               graphs>>]_vars

\* an item that has a type, a written attribute and an edge has tried to
\* subscribe itself
SelfSubscriptionRejectedWitness ==
    /\ call.op = "subscribe"
    /\ call.a = call.b
    /\ call.result = "AssertionError"
    /\ item_graph[call.a] # None
    /\ notifier_set[call.a] \cup subscriber_set[call.a] # {}
    /\ OwnedActivate(call.a)

\* C20: S.unsubscribe(N) with N not among S's notifiers raises KeyError, also
\* for an S without a graph, where reaching the hooks would raise another
\* error, and changes no edge set, graph or attribute layer.
UnsubscribeMissingEdge ==
    [][(call'.op = "unsubscribe" /\ call'.b \notin notifier_set[call'.a])
          => /\ call'.result = "KeyError"
             /\ UNCHANGED <<item_graph, notifier_set, subscriber_set,
                            notification_behaviors, notification_attributes,
                            graphs>>]_vars

\* an isolated item has tried to unsubscribe from an item that has a graph
UnsubscribeMissingEdgeWitness ==
    /\ call.op = "unsubscribe"
    /\ call.result = "KeyError"
    /\ call.a # call.b
    /\ Isolated(call.a)
    /\ item_graph[call.b] # None

\* the handle's own behavior answers the name with NameError
Unhandled(item, op, attribute_name) ==
    /\ RedPoint \in DOMAIN notification_behaviors[item]
    /\ IF op = "get_attribute"
       THEN behavior_get_attribute(Cur, notification_behaviors[item][RedPoint], item,
                                   RedPoint, attribute_name).err = "NameError"
       ELSE \A r \in behavior_set_attribute(Cur, notification_behaviors[item][RedPoint],
                                            item, RedPoint, attribute_name,
                                            BoolValue(TRUE)) : r.err = "NameError"

\* C21: get_attribute or set_attribute through a handle, for a name the
\* handle's behavior does not handle, raises AttributeError, and the failed
\* call leaves every owned and inherited value of every item unchanged.
UnknownAttribute ==
    [][(/\ call'.op \in {"set_attribute", "get_attribute"}
        /\ Unhandled(call'.a, call'.op, call'.b))
          => /\ call'.result = "AttributeError"
             /\ UNCHANGED notification_attributes]_vars

\* C22: while the edges form a DAG, has_subscription(item, find_indirect=True)
\* returns true exactly when item is strictly downstream of self, and
\* has_subscription(item) returns true exactly when item is a direct notifier
\* of self.
IndirectSubscriptionQuery ==
    (call.op = "has_subscription" /\ NoCircularSubscription)
        => /\ call.result = "ok"
           /\ call.value.returned =
                  IF call.value.find_indirect
                  THEN call.b \in Downstream(call.a)
                  ELSE call.b \in notifier_set[call.a]

\* C23: a walk_through traversal that starts in a graph that is not a tree
\* yields no item twice.
TraversalDedup ==
    (/\ call.op = "walk_through"
     /\ call.result = "ok"
     /\ item_graph[call.a] # None
     /\ ~graphs[item_graph[call.a]].is_tree)
        => \A i \in 1..Len(call.value.seq), j \in 1..Len(call.value.seq) :
               call.value.seq[i] = call.value.seq[j] => i = j

\* the items a traversal can reach along edges between accepted items
Accepted(start, upstream, rejected) ==
    Reachable(Avoiding(IF upstream THEN subscriber_set ELSE notifier_set, rejected), start)

\* C24: with terminate true nothing is yielded after the assertion has
\* returned false for an item; with terminate false the traversal yields
\* every item that is reachable without passing through a rejected item, and
\* no other.
TraversalTermination ==
    (call.op = "walk_through" /\ call.result = "ok")
        => IF call.b.terminate
           THEN call.value.cut # -1 => Len(call.value.seq) = call.value.cut
           ELSE {call.value.seq[k] : k \in 1..Len(call.value.seq)}
                    = Accepted(call.a, call.b.upstream, call.b.rejected)

\* the behaviors the graph of an item has registered for writes of activate
InterestedInActivate(item) ==
    IF item_graph[item] = None THEN {}
    ELSE {u[3] : u \in {v \in graphs[item_graph[item]].interest_attributes :
                           v[1] = RedPoint /\ v[2] = Activate}}

\* what a counter that sees the owned value of before the write adds
DeltaSeenBefore(item, value) ==
    default_count_function(value)
        - (IF has_attribute(Cur, item, RedPoint, Activate)
           THEN default_count_function(
                    BoolValue(get_owned(Cur, item, RedPoint, Activate, FALSE)))
           ELSE 0)

\* C25: a write of activate through a handle runs the set_attribute of every
\* behavior in the interest index of the item's graph before the handle's own
\* behavior stores the value: the counter registered there adds the count of
\* the new value less the count of the owned value of before the write to
\* the item's inherited count, once, and once more when it is also the
\* handle's own behavior; on an item without a graph only the own behavior
\* runs.
InterestDispatchOrder ==
    [][(call'.op = "set_attribute" /\ call'.result = "ok")
          => DictGet(notification_attributes'[call'.a][RedPoint].inherited_attribute_dict,
                     CountActivate, 0)
                 = get_cache(Cur, call'.a, RedPoint, CountActivate, 0)
                      + DeltaSeenBefore(call'.a, call'.value)
                           * (Cardinality(InterestedInActivate(call'.a))
                                 + (IF Typed(call'.a, CA) THEN 1 ELSE 0))]_vars

\* false has been written over an owned true on a NotifySubscribers item
\* whose graph has the counter registered, and the item's inherited count is
\* back at zero
InterestDispatchOrderWitness ==
    /\ call.op = "set_attribute"
    /\ call.result = "ok"
    /\ call.value = BoolValue(FALSE)
    /\ Typed(call.a, NS)
    /\ InterestedInActivate(call.a) = {CA}
    /\ has_attribute(Cur, call.a, RedPoint, Activate)
    /\ steps >= 2
    /\ \E c \in subscriber_set[call.a] : Typed(c, CA)
    /\ get_cache(Cur, call.a, RedPoint, CountActivate, 1) = 0

\* C26: in a subscription that succeeds, every behavior of the resulting
\* registry gets exactly one pre_subscribe call, the calls come before the
\* edge insertion, and iterating the third argument of a behavior's call
\* gives the identifiers bound to that behavior in the combined graph.
PreSubscribeProtocol ==
    (call.op = "subscribe" /\ call.result = "ok")
        => LET registry == graphs[item_graph[call.a]].behaviors
           IN /\ Len(call.value) = 2
              /\ call.value[2] = {inserted_edge(call.a, call.b)}
              /\ \A behavior \in {p[1] : p \in registry} :
                     \E c \in call.value[1] :
                         /\ {d \in call.value[1] : d.behavior = behavior} = {c}
                         /\ Iterate(c.related_identifiers)
                                = {p[2] : p \in {q \in registry : q[1] = behavior}}

\* C27: an unsubscribe that succeeds calls pre_unsubscribe of every behavior
\* of the registry, then removes the notifier from the subscriber's notifier
\* set and the subscriber from the notifier's subscriber set, and changes no
\* other edge, no item's graph, no graph's members, registry, tree flag or
\* head, and no attribute layer.
UnsubscribeFrame ==
    [][(call'.op = "unsubscribe" /\ call'.result = "ok")
          => /\ Len(call'.value) = 2
             /\ call'.value[2] = {removed_edge(call'.a, call'.b)}
             /\ \A p \in graphs[item_graph[call'.a]].behaviors :
                    \E c \in call'.value[1] : c.behavior = p[1]
             /\ notifier_set' = [notifier_set EXCEPT ![call'.a] = @ \ {call'.b}]
             /\ subscriber_set' = [subscriber_set EXCEPT ![call'.b] = @ \ {call'.a}]
             /\ call'.b \in notifier_set[call'.a]
             /\ call'.a \in subscriber_set[call'.b]
             /\ UNCHANGED <<item_graph, notification_behaviors, notification_attributes,
                            graphs>>]_vars

\* the last edge of an item that inherits a written true has been removed,
\* in a graph whose registry holds a behavior
UnsubscribeFrameWitness ==
    /\ call.op = "unsubscribe"
    /\ call.result = "ok"
    /\ call.value[1] # {}
    /\ notifier_set[call.a] = {} /\ subscriber_set[call.a] = {}
    /\ item_graph[call.a] # None
    /\ call.a \in graphs[item_graph[call.a]].items
    /\ has_attribute_set(Cur, call.a, ShortId)
    /\ get_cache(Cur, call.a, ShortId, Activate, FALSE)

\* C28: in every graph that is not a tree the multi-head count is the number
\* of members without subscribers.
MultiHeadCount ==
    \A g \in LiveGraphs :
        ~graphs[g].is_tree
            => graphs[g].graph_head_count
                   = Cardinality({i \in graphs[g].items : subscriber_set[i] = {}})

\* C29: the behavior registry of every graph holds exactly the (behavior,
\* identifier) pairs of the notification types of its members, those added
\* after the member joined included.
BehaviorRegistry ==
    \A g \in LiveGraphs :
        graphs[g].behaviors = UNION {item_behaviors(Cur, i) : i \in graphs[g].items}

\* C30: for every member of a graph that carries a type and every attribute
\* the type's behavior is interested in, the behavior is in the graph's
\* interest index under the type's identifier and that attribute, also when
\* the type was added after the member joined.
InterestIndexComplete ==
    \A g \in LiveGraphs : \A i \in graphs[g].items :
        \A id \in DOMAIN notification_behaviors[i] :
            \A attribute \in get_interested_attributes(notification_behaviors[i][id]) :
                <<id, attribute, notification_behaviors[i][id]>>
                    \in graphs[g].interest_attributes

\* C31: a write of a value that is not a bool to the activate attribute of a
\* NotifySubscribers item raises TypeError and changes no owned and no
\* inherited value of any item, the count of a counter registered for
\* activate in the item's graph included.
FailedWriteKeepsAggregates ==
    [][(/\ call'.op = "set_attribute"
        /\ Typed(call'.a, NS)
        /\ ~is_bool(call'.value))
          => /\ call'.result = "TypeError"
             /\ UNCHANGED notification_attributes]_vars

\* members, tree flag and head of every graph
GraphLayout ==
    [g \in DOMAIN graphs |->
        [items |-> graphs[g].items, is_tree |-> graphs[g].is_tree,
         head |-> graphs[g].head]]

\* C32: S.subscribe(N) with N already among S's notifiers returns without
\* error and leaves the edge sets, every item's graph, every graph's
\* members, tree flag and head, and what every item reads through its types
\* as they were.
IdempotentResubscribe ==
    [][(call'.op = "subscribe" /\ call'.b \in notifier_set[call'.a])
          => /\ call'.result = "ok"
             /\ UNCHANGED <<notifier_set, subscriber_set, item_graph>>
             /\ GraphLayout' = GraphLayout
             /\ Aggregates(Cur)' = Aggregates(Cur)]_vars

\* the items of a sequence
Yielded(seq) == {seq[k] : k \in 1..Len(seq)}

\* C33: a traversal with the default assertion that comes to its end has
\* yielded exactly the items reachable from its start along one or more
\* notifier edges, or subscriber edges when upstream, whatever the tree flag
\* of the graph; on a DAG it does come to its end and has not yielded its
\* start.  The walk of the circular-subscription check therefore meets every
\* item downstream of the notifier: on a DAG, a subscribe between two items
\* that have graphs, whose subscriber is downstream of its notifier, is
\* stopped by the assertion.
TraversalCompleteness ==
    /\ (call.op = "walk_through" /\ call.b.rejected = {})
          => /\ NoCircularSubscription => call.result = "ok"
             /\ call.result = "ok"
                   => /\ Yielded(call.value.seq)
                            = Reachable(IF call.b.upstream THEN subscriber_set
                                        ELSE notifier_set, call.a)
                      /\ Yielded(call.value.seq)
                            = walk_through(Cur, call.a, call.b.upstream)
                      /\ NoCircularSubscription => call.a \notin Yielded(call.value.seq)
    /\ \A s \in Items, n \in Items :
           (/\ NoCircularSubscription
            /\ item_graph[s] # None /\ item_graph[n] # None
            /\ ~destroyed_graph(Cur, s) /\ ~destroyed_graph(Cur, n)
            /\ s \in Downstream(n))
              => \A pre \in do_pre_subscribe(Cur, s, n, TRUE) : pre.err = "AssertionError"

\* the head of a diamond, whose graph is not a tree, has been walked to the
\* end: the bottom item was yielded on both paths
TraversalCompletenessWitness ==
    /\ call.op = "walk_through"
    /\ call.result = "ok"
    /\ call.b.rejected = {}
    /\ ~call.b.upstream
    /\ item_graph[call.a] # None
    /\ ~graphs[item_graph[call.a]].is_tree
    /\ NoCircularSubscription
    /\ Len(call.value.seq) = 4
    /\ Cardinality(Yielded(call.value.seq)) = 3
    /\ \E s \in Items : s \in Downstream(call.a) /\ item_graph[s] # None

====
